---- MODULE Spec2Model ----
(***************************************************************************)
(* qt_await: coroutines driven by Qt signals (src/qt_await/core.py) and    *)
(* the helpers built on them (src/qt_await/utils.py).                      *)
(*                                                                         *)
(* One logical thread.  `stack` is the Python call stack of step_coro      *)
(* activations: the coroutine on top is the one executing; the host event  *)
(* loop acts only when the stack is empty.  A coroutine's code between two  *)
(* suspension points is application code, so it is modelled as a free       *)
(* choice among the library operations it may call (await a SignalQueue,    *)
(* await one_of(...), await a Task, emit a signal, return, raise).          *)
(***************************************************************************)
EXTENDS Integers, Sequences, FiniteSets, TLC

Queues == {"q1", "q2"}
Coros == {"c1", "c2", "c3"}

\* Bounds of the exploration.
MaxFired == 2
MaxAwaits == 2
MaxOps == 3
FifoMaxFired == 7
FifoMaxAwaits == 7
RaceMaxFired == 4
RaceMaxAwaits == 3
MaxDur == 3
MaxTime == 2 * MaxDur
MaxBytes == 3
StreamMaxFired == 1

\* timer intervals, in timer units
Durations == 1..MaxDur

\* The capacity utils.py asks of the queues of sleep and sleep_loop.
max_buffer_size == 1

\* read_streaming_bytes(dev, maxSize): the most bytes one read returns
maxSize == 2

VARIABLES
    signals_q,  \* SignalQueue.signals_q: queue -> buffered notifications
    waiters,    \* SignalQueue.waiters / Task.waiters: insertion-ordered keys
    waiting,    \* SignalPlumbing.waiting: coroutine -> tuple of catchers
    tasks,      \* SignalPlumbing.tasks: keys
    result,     \* Task._result
    co,         \* coroutine frame: new / run / susp / done / failed
    yielded,    \* what a suspended coroutine yielded at its suspension point
    ctor,       \* a one_of(...) call in progress in a coroutine
    stack,      \* step_coro activations, innermost last
    pending,    \* QTimer.singleShot(0, ...) callbacks not yet run
    fired,      \* queue -> number of notifications fired so far
    rcvd,       \* coroutine -> outcomes of its awaits, in order
    escaped,    \* exceptions that left step_coro towards the host
    now,        \* the host's clock, in timer units
    timer,      \* the QTimer behind a queue: its state and expiry time
    dur,        \* the durations of the with_timeout scenario
    wcall,      \* the with_timeout call of the scenario: phase, outcome, time
    emitted,    \* queue -> the signal and arguments of each notification
    dev,        \* the QProcess / QIODevice of the scenario, a host object
    ucall       \* the run_process / read_streaming_* call of the scenario

\* the host's facilities and the scenario's bookkeeping
host == <<now, timer, dur, wcall>>

\* the device of the utils scenarios and the call that uses it
io == <<emitted, dev, ucall>>

vars == <<signals_q, waiters, waiting, tasks, result, co, yielded, ctor,
          stack, pending, fired, rcvd, escaped, now, timer, dur, wcall,
          emitted, dev, ucall>>

----------------------------------------------------------------------------
\* Values and results

None == [tag |-> "None", val |-> [kind |-> "none", src |-> "", n |-> 0]]

Value(v) == [tag |-> "Value", val |-> v]

Error(e) == [tag |-> "Error", val |-> e]

ReceivedSignal(q, k) == [kind |-> "signal", src |-> q, n |-> k]

RetVal(c) == [kind |-> "value", src |-> c, n |-> 0]

Exc(c) == [kind |-> "exc", src |-> c, n |-> 0]

TypeErr == [kind |-> "TypeError", src |-> "", n |-> 0]

\* the Cancellation Signal and the Timeout error of the Timeout Wrapper
Cancelled == [kind |-> "Cancelled", src |-> "", n |-> 0]

TimeoutError == [kind |-> "TimeoutError", src |-> "", n |-> 0]

Unsupported == "int"

NoYield == [iterable |-> TRUE, items |-> <<>>]

NoCtor == [active |-> FALSE, todo |-> <<>>, catchers |-> <<>>]

\* no QTimer made yet
NoTimer == [state |-> "none", single |-> FALSE, expiry |-> 0]

NoCall == [phase |-> "idle", res |-> None, t0 |-> 0, at |-> 0]

\* no device in use: nothing to arrive, nothing buffered
NoDev == [state |-> "none", src |-> <<>>, buf |-> <<>>, news |-> FALSE, all |-> <<>>]

\* no utils call made yet
NoUtil == [fn |-> "", phase |-> "idle", finished |-> FALSE, out |-> <<>>,
           pend |-> <<>>, text |-> <<>>, res |-> None]

----------------------------------------------------------------------------
\* Sequence helpers

Range(s) == {s[i] : i \in 1..Len(s)}

Last(s) == s[Len(s)]

Front(s) == SubSeq(s, 1, Len(s) - 1)

RECURSIVE Without(_, _)
Without(s, x) ==
    IF s = <<>> THEN <<>>
    ELSE IF Head(s) = x THEN Without(Tail(s), x)
    ELSE <<Head(s)>> \o Without(Tail(s), x)

\* dict[key] = value: a new key goes last, a present key keeps its place
DictSet(s, x) == IF x \in Range(s) THEN s ELSE Append(s, x)

Top == stack[Len(stack)].coro

Running(c) == stack # <<>> /\ Top = c /\ co[c] = "run"

TotalFired == fired["q1"] + fired["q2"]

\* awaits a coroutine has begun, and all of them
Begun(c) == Len(rcvd[c]) + (IF co[c] = "susp" \/ ctor[c].active THEN 1 ELSE 0)

TotalBegun == Begun("c1") + Begun("c2") + Begun("c3")

MayAwait(c) == Len(rcvd[c]) < MaxAwaits /\ TotalBegun < MaxOps

\* Coroutine objects are interchangeable until started: they are started in
\* the order c1, c2, c3.
Idx(c) == CASE c = "c1" -> 1 [] c = "c2" -> 2 [] OTHER -> 3

NextNew(c) == co[c] = "new" /\ \A x \in Coros : Idx(x) < Idx(c) => co[x] # "new"

----------------------------------------------------------------------------
\* Task

\* Task.done
done(t) == result[t] # None

\* a task_finished that schedules no callback
task_finished_none(t, res) == <<>>

\* SignalPlumbing.task_finished: one singleShot(0) callback per waiter; the
\* lambda reads the loop variable `waiter` when it runs, by which time the
\* loop has ended, so every callback of one call steps the last waiter.
task_finished(t, res) ==
    [i \in 1..Len(waiters[t]) |-> [waiter |-> Last(waiters[t]), result |-> res]]

----------------------------------------------------------------------------
\* SignalPlumbing.step_coro, first half: unhook and resume

\* a step_coro that leaves the coroutine registered where it was
UnhookNone(w, c, catchers) == w

\* a step_coro that unhooks the coroutine from the first catcher only
UnhookFirst(w, c, catchers) ==
    [x \in DOMAIN w |-> IF catchers # <<>> /\ x = Head(catchers)
                        THEN Without(w[x], c) ELSE w[x]]

Unhook(w, c, catchers) ==
    [x \in DOMAIN w |-> IF x \in Range(catchers) THEN Without(w[x], c) ELSE w[x]]

\* w, wt: the waiter lists and the `waiting` dict as the caller left them.
step_coro(c, res, w, wt, via) ==
    IF c \notin DOMAIN wt
    THEN \* self.waiting.pop(id(coro)) raises KeyError out of step_coro
         /\ waiters' = w
         /\ waiting' = wt
         /\ escaped' = escaped \cup {[exc |-> "KeyError", at |-> c]}
         /\ UNCHANGED <<co, stack, rcvd, yielded>>
    ELSE /\ waiters' = Unhook(w, c, wt[c])
         /\ waiting' = [x \in DOMAIN wt \ {c} |-> wt[x]]
         /\ co' = [co EXCEPT ![c] = "run"]
         /\ yielded' = [yielded EXCEPT ![c] = NoYield]
         /\ stack' = Append(stack, [coro |-> c, via |-> via])
         /\ rcvd' = IF co[c] = "new" THEN rcvd
                    ELSE [rcvd EXCEPT ![c] = Append(@, res)]
         /\ UNCHANGED escaped

----------------------------------------------------------------------------
\* SignalPlumbing.step_coro, second half: the coroutine yielded `y`

Supported(x) == x \in Queues \cup Coros

FirstBad(items) ==
    LET bad == {i \in 1..Len(items) : ~Supported(items[i])}
    IN  IF bad = {} THEN 0 ELSE CHOOSE i \in bad : \A j \in bad : i <= j

Hook(w, c, items) ==
    [x \in DOMAIN w |-> IF x \in Range(items) THEN DictSet(w[x], c) ELSE w[x]]

\* c is on top of the stack; ct is `ctor` as the caller left it.
Suspend(c, y, ct) ==
    LET frame == Last(stack)
        rest == Front(stack)
        k == FirstBad(y.items)
        ok == y.iterable /\ k = 0
        hooked == IF ~y.iterable THEN <<>>
                  ELSE IF k = 0 THEN y.items
                  ELSE SubSeq(y.items, 1, k - 1)
        toParent == ~ok /\ frame.via = "start" /\ rest # <<>>
    IN  /\ co' = [co EXCEPT ![c] = "susp"]
        /\ yielded' = [yielded EXCEPT ![c] = y]
        /\ stack' = rest
        /\ waiters' = Hook(waiters, c, hooked)
        /\ waiting' = IF ok THEN [x \in DOMAIN waiting \cup {c} |->
                                     IF x = c THEN y.items ELSE waiting[x]]
                      ELSE waiting
        \* TypeError leaves step_coro: into the coroutine that called
        \* start_coro, or to the host (a slot or timer callback, or the
        \* host's own start_async call)
        /\ rcvd' = IF toParent
                   THEN [rcvd EXCEPT ![Last(rest).coro] = Append(@, Error(TypeErr))]
                   ELSE rcvd
        /\ ctor' = IF toParent THEN [ct EXCEPT ![Last(rest).coro] = NoCtor] ELSE ct
        /\ escaped' = IF ok \/ toParent THEN escaped
                      ELSE escaped \cup {[exc |-> "TypeError", at |-> c]}

----------------------------------------------------------------------------
\* SignalQueue

\* next(iter(self.waiters)): the key registered first
OldestWaiterLast(w) == Last(w)

OldestWaiter(w) == Head(w)

\* self.signals_q.append(sig_obj)
BufferedFront(buf, sig_obj) == <<sig_obj>> \o buf

Buffered(buf, sig_obj) == Append(buf, sig_obj)

\* self.signals_q.popleft(): the notification returned, the buffer left
PopleftNewest(buf) == [sig |-> Last(buf), rest |-> Front(buf)]

Popleft(buf) == [sig |-> Head(buf), rest |-> Tail(buf)]

\* SignalQueue.on_signal
on_signal(q) ==
    LET sig_obj == ReceivedSignal(q, fired[q] + 1) IN
    /\ fired' = [fired EXCEPT ![q] = @ + 1]
    /\ IF waiters[q] # <<>>
       THEN /\ step_coro(OldestWaiter(waiters[q]), Value(sig_obj),
                         [waiters EXCEPT ![q] = Without(@, OldestWaiter(waiters[q]))],
                         waiting, "signal")
            /\ UNCHANGED signals_q
       ELSE /\ signals_q' = [signals_q EXCEPT ![q] = Buffered(@, sig_obj)]
            /\ UNCHANGED <<waiters, waiting, co, stack, rcvd, yielded, escaped>>
    /\ UNCHANGED <<tasks, result, ctor, pending>>

\* A signal connected to q is emitted, by the host or by the running coroutine.
Emit(q) ==
    /\ stack = <<>> \/ (Running(Top) /\ ~ctor[Top].active)
    /\ on_signal(q)
    /\ UNCHANGED <<host, io>>

Fire(q) ==
    /\ TotalFired < MaxFired
    /\ Emit(q)

\* SignalQueue.__await__
CoAwaitQueue(c, q) ==
    /\ Running(c)
    /\ ~ctor[c].active
    /\ IF signals_q[q] # <<>>
       THEN /\ signals_q' = [signals_q EXCEPT ![q] = Popleft(@).rest]
            /\ rcvd' = [rcvd EXCEPT ![c] = Append(@, Value(Popleft(signals_q[q]).sig))]
            /\ UNCHANGED <<co, yielded, stack, waiters, waiting, ctor, escaped>>
       ELSE /\ Suspend(c, [iterable |-> TRUE, items |-> <<q>>], ctor)
            /\ UNCHANGED signals_q
    /\ UNCHANGED <<tasks, result, pending, fired>>

AwaitQueue(c, q) ==
    /\ MayAwait(c)
    /\ CoAwaitQueue(c, q)
    /\ UNCHANGED <<host, io>>

----------------------------------------------------------------------------
\* start_async / SignalPlumbing.start_coro, called by the host (a coroutine
\* starts another one through one_of)
start_async(c) ==
    /\ NextNew(c)
    /\ stack = <<>>
    /\ tasks' = tasks \cup {c}
    /\ step_coro(c, Value(None), waiters,
                 [x \in DOMAIN waiting \cup {c} |-> IF x = c THEN <<>> ELSE waiting[x]],
                 "start")
    /\ UNCHANGED <<signals_q, result, ctor, pending, fired>>
    /\ UNCHANGED <<host, io>>

\* The coroutine's code ends: StopIteration or an exception reaches step_coro
Finish(c, res) ==
    /\ Running(c)
    /\ ~ctor[c].active
    /\ tasks' = tasks \ {c}
    /\ co' = [co EXCEPT ![c] = IF res.tag = "Value" THEN "done" ELSE "failed"]
    /\ stack' = Front(stack)
    /\ pending' = pending \o task_finished(c, res)
    /\ UNCHANGED <<signals_q, waiters, waiting, result, yielded, ctor, fired,
                   rcvd, escaped>>
    /\ UNCHANGED <<host, io>>

CoReturn(c) == Finish(c, Value(RetVal(c)))

\* an exception leaves the coroutine's code
CoRaise(c) == Finish(c, Error(Exc(c)))

\* the Result a coroutine's code ended with (step_coro hands it to
\* task_finished and keeps it nowhere)
outcome(c) ==
    CASE co[c] = "done" -> Value(RetVal(c))
      [] co[c] = "failed" -> Error(Exc(c))
      [] OTHER -> None

\* A singleShot(0) callback of task_finished runs from the event loop
RunPending ==
    /\ stack = <<>>
    /\ pending # <<>>
    /\ pending' = Tail(pending)
    /\ step_coro(Head(pending).waiter, Head(pending).result, waiters, waiting, "timer")
    /\ UNCHANGED <<signals_q, tasks, result, ctor, fired>>
    /\ UNCHANGED <<host, io>>

----------------------------------------------------------------------------
\* the Task of coroutine t is there for c to name: start_coro has returned it
HandleOf(c, t) ==
    /\ t # c
    /\ co[t] # "new"
    /\ \A i \in 1..Len(stack) : ~(stack[i].coro = t /\ stack[i].via = "start")

\* Task.__await__: the coroutine awaits the handle of a started coroutine
CoAwaitTask(c, t) ==
    /\ Running(c)
    /\ ~ctor[c].active
    /\ MayAwait(c)
    /\ HandleOf(c, t)
    /\ IF result[t] = None
       THEN \* yield self: a Task, not a tuple of catchers
            Suspend(c, [iterable |-> FALSE, items |-> <<t>>], ctor)
       ELSE /\ rcvd' = [rcvd EXCEPT ![c] = Append(@, result[t])]
            /\ UNCHANGED <<co, yielded, stack, waiters, waiting, ctor, escaped>>
    /\ UNCHANGED <<signals_q, tasks, result, pending, fired>>
    /\ UNCHANGED <<host, io>>

\* An awaitable of the application yields a wait set of its own: one holding
\* something that is neither a Task nor a SignalQueue, or the handle of a
\* started coroutine
RawWaitSets ==
    {<<x, Unsupported>> : x \in Queues} \cup {<<Unsupported>>}
        \cup {<<t>> : t \in Coros}

CoYield(c, items) ==
    /\ Running(c)
    /\ ~ctor[c].active
    /\ MayAwait(c)
    /\ \A t \in Range(items) \cap Coros : HandleOf(c, t)
    /\ Suspend(c, [iterable |-> TRUE, items |-> items], ctor)
    /\ UNCHANGED <<signals_q, tasks, result, pending, fired>>
    /\ UNCHANGED <<host, io>>

----------------------------------------------------------------------------
\* one_of

QArg(q) == [type |-> "SignalQueue", ref |-> q, sub |-> <<>>]

CArg(c) == [type |-> "coroutine", ref |-> c, sub |-> <<>>]

OArg(catchers) == [type |-> "one_of", ref |-> "", sub |-> catchers]

XArg == [type |-> "other", ref |-> Unsupported, sub |-> <<>>]

OneOfArgs ==
    {<<CArg(c)>> : c \in Coros}
    \cup {<<QArg("q1"), QArg("q2")>>, <<QArg("q2"), QArg("q1")>>,
          <<OArg(<<"q1">>), QArg("q2")>>, <<QArg("q1"), XArg>>}
    \cup {<<QArg(q), CArg(c)>> : q \in Queues, c \in Coros}
    \cup {<<CArg(c), QArg(q)>> : q \in Queues, c \in Coros}
    \cup {<<CArg(c), XArg>> : c \in Coros}
    \cup {<<CArg(c), CArg(d)>> : c, d \in Coros}

CoroRefs(args) == {args[i].ref : i \in {j \in 1..Len(args) : args[j].type = "coroutine"}}

\* coroutine objects created as arguments of a one_of call still under way
Reserved == UNION {CoroRefs(ctor[c].todo) : c \in Coros}

Fresh(x) == co[x] = "new" /\ x \notin Reserved

\* the coroutine arguments are the next fresh coroutine objects, in order
FreshInOrder(args) ==
    /\ \A x \in CoroRefs(args) : Fresh(x)
    /\ \A x \in Coros : (Fresh(x) /\ x \notin CoroRefs(args)) =>
           \A y \in CoroRefs(args) : Idx(y) < Idx(x)
    /\ \A i, j \in 1..Len(args) :
           (i < j /\ args[i].type = "coroutine" /\ args[j].type = "coroutine")
               => Idx(args[i].ref) < Idx(args[j].ref)

\* the coroutine evaluates one_of(*args): every coroutine argument is a fresh
\* coroutine object
CoOneOf(c, args) ==
    /\ Running(c)
    /\ ~ctor[c].active
    /\ FreshInOrder(args)
    /\ ctor' = [ctor EXCEPT ![c] = [active |-> TRUE, todo |-> args, catchers |-> <<>>]]
    /\ UNCHANGED <<signals_q, waiters, waiting, tasks, result, co, yielded, stack,
                   pending, fired, rcvd, escaped>>

OneOfCall(c, args) ==
    /\ MayAwait(c)
    /\ CoOneOf(c, args)
    /\ UNCHANGED <<host, io>>

\* one_of.__init__, one turn of its loop
OneOfInit(c) ==
    /\ Running(c)
    /\ ctor[c].active
    /\ ctor[c].todo # <<>>
    /\ LET obj == Head(ctor[c].todo)
           next(catchers) == [ctor EXCEPT ![c] = [active |-> TRUE,
                                 todo |-> Tail(ctor[c].todo), catchers |-> catchers]]
       IN  CASE obj.type = "one_of" ->
                  /\ ctor' = next(ctor[c].catchers \o obj.sub)
                  /\ UNCHANGED <<waiters, waiting, tasks, co, yielded, stack, rcvd, escaped>>
             [] obj.type = "SignalQueue" ->
                  /\ ctor' = next(Append(ctor[c].catchers, obj.ref))
                  /\ UNCHANGED <<waiters, waiting, tasks, co, yielded, stack, rcvd, escaped>>
             [] obj.type = "coroutine" ->
                  \* SignalPlumbing.start_coro
                  /\ ctor' = next(Append(ctor[c].catchers, obj.ref))
                  /\ tasks' = tasks \cup {obj.ref}
                  /\ step_coro(obj.ref, Value(None), waiters,
                               [x \in DOMAIN waiting \cup {obj.ref} |->
                                   IF x = obj.ref THEN <<>> ELSE waiting[x]],
                               "start")
             [] OTHER ->
                  \* raise TypeError(str(type(obj)))
                  /\ ctor' = [ctor EXCEPT ![c] = NoCtor]
                  /\ rcvd' = [rcvd EXCEPT ![c] = Append(@, Error(TypeErr))]
                  /\ UNCHANGED <<waiters, waiting, tasks, co, yielded, stack, escaped>>
    /\ UNCHANGED <<signals_q, result, pending, fired>>
    /\ UNCHANGED <<host, io>>

Ready(x) ==
    IF x \in Queues THEN signals_q[x] # <<>> ELSE done(x)

\* index of the first catcher that is ready, 0 when none is
FirstReady(catchers) ==
    LET r == {i \in 1..Len(catchers) : Ready(catchers[i])}
    IN  IF r = {} THEN 0 ELSE CHOOSE i \in r : \A j \in r : i <= j

\* one_of.__await__
OneOfAwait(c) ==
    /\ Running(c)
    /\ ctor[c].active
    /\ ctor[c].todo = <<>>
    /\ LET catchers == ctor[c].catchers
           i == FirstReady(catchers)
           ct == [ctor EXCEPT ![c] = NoCtor]
       IN  IF i = 0
           THEN /\ Suspend(c, [iterable |-> TRUE, items |-> catchers], ct)
                /\ UNCHANGED signals_q
           ELSE /\ IF catchers[i] \in Queues
                   THEN /\ signals_q' = [signals_q EXCEPT ![catchers[i]] = Popleft(@).rest]
                        /\ rcvd' = [rcvd EXCEPT ![c] =
                                       Append(@, Value(Popleft(signals_q[catchers[i]]).sig))]
                   ELSE /\ rcvd' = [rcvd EXCEPT ![c] = Append(@, result[catchers[i]])]
                        /\ UNCHANGED signals_q
                /\ ctor' = ct
                /\ UNCHANGED <<co, yielded, stack, waiters, waiting, escaped>>
    /\ UNCHANGED <<tasks, result, pending, fired>>
    /\ UNCHANGED <<host, io>>

----------------------------------------------------------------------------
\* utils.py: timers

\* QtCore.QTimer(), with setSingleShot(single)
QTimer(single) == [state |-> "inactive", single |-> single, expiry |-> 0]

\* timer.start(ms)
Started(t, ms) == [t EXCEPT !.state = "active", !.expiry = now + ms]

\* SignalQueue(*signals, **kwargs): __init__ is declared (self, *signals), so
\* a call with a keyword argument raises TypeError
SignalQueue_init(kwargs) == IF kwargs = {} THEN "ok" ELSE "TypeError"

\* the body of a utils coroutine function up to its first await, run inside
\* coroutine c: make the timer, make the SignalQueue, start the timer, await
TimerWait(c, q, single, ms) ==
    /\ Running(c)
    /\ ~ctor[c].active
    /\ MayAwait(c)
    /\ timer[q] = NoTimer
    /\ IF SignalQueue_init({"max_buffer_size"}) = "ok"
       THEN /\ timer' = [timer EXCEPT ![q] = Started(QTimer(single), ms)]
            /\ CoAwaitQueue(c, q)
       ELSE \* the TypeError is raised into the awaiting coroutine's code
            /\ timer' = [timer EXCEPT ![q] = QTimer(single)]
            /\ rcvd' = [rcvd EXCEPT ![c] = Append(@, Error(TypeErr))]
            /\ UNCHANGED <<signals_q, waiters, waiting, tasks, result, co, yielded,
                           ctor, stack, pending, fired, escaped>>
    /\ UNCHANGED <<now, dur, wcall, io>>

\* await sleep(ms)
sleep(c, q, ms) == TimerWait(c, q, TRUE, ms)

\* async for _ in sleep_loop(ms): the first iteration
sleep_loop(c, q, ms) == TimerWait(c, q, FALSE, ms)

----------------------------------------------------------------------------
InitAll(d, dv) ==
    /\ signals_q = [q \in Queues |-> <<>>]
    /\ waiters = [x \in Queues \cup Coros |-> <<>>]
    /\ waiting = <<>>
    /\ tasks = {}
    /\ result = [c \in Coros |-> None]
    /\ co = [c \in Coros |-> "new"]
    /\ yielded = [c \in Coros |-> NoYield]
    /\ ctor = [c \in Coros |-> NoCtor]
    /\ stack = <<>>
    /\ pending = <<>>
    /\ fired = [q \in Queues |-> 0]
    /\ rcvd = [c \in Coros |-> <<>>]
    /\ escaped = {}
    /\ now = 0
    /\ timer = [q \in Queues |-> NoTimer]
    /\ dur = d
    /\ wcall = NoCall
    /\ emitted = [q \in Queues |-> <<>>]
    /\ dev = dv
    /\ ucall = NoUtil

InitWith(d) == InitAll(d, NoDev)

Init == InitWith([op |-> 0, timeout |-> 0])

Next ==
    \/ \E c \in Coros : start_async(c)
    \/ \E q \in Queues : Fire(q)
    \/ RunPending
    \/ \E c \in Coros, q \in Queues : AwaitQueue(c, q)
    \/ \E c \in Coros, t \in Coros : CoAwaitTask(c, t)
    \/ \E c \in Coros, items \in RawWaitSets : CoYield(c, items)
    \/ \E c \in Coros, args \in OneOfArgs : OneOfCall(c, args)
    \/ \E c \in Coros : OneOfInit(c)
    \/ \E c \in Coros : OneOfAwait(c)
    \/ \E c \in Coros : CoReturn(c)
    \/ \E c \in Coros : CoRaise(c)

Spec == Init /\ [][Next]_vars

----------------------------------------------------------------------------
\* One SignalQueue, q1, consumed by one coroutine, c1, which awaits it in a
\* loop and may itself emit the signal between two awaits.

FifoFire ==
    /\ TotalFired < FifoMaxFired
    /\ Emit("q1")

FifoAwait ==
    /\ Len(rcvd["c1"]) < FifoMaxAwaits
    /\ CoAwaitQueue("c1", "q1")
    /\ UNCHANGED <<host, io>>

NextFifo ==
    \/ start_async("c1")
    \/ FifoFire
    \/ FifoAwait
    \/ CoReturn("c1")

SpecFifo == Init /\ [][NextFifo]_vars

\* the notifications 1..n of queue q, as the awaits return them
FiredSeq(q, n) == [k \in 1..n |-> Value(ReceivedSignal(q, k))]

AsValues(buf) == [k \in 1..Len(buf) |-> Value(buf[k])]

\* C1: with one SignalQueue and one consumer, an await on a non-empty buffer
\* returns the oldest buffered notification without suspending, an await on
\* an empty buffer suspends and the next notification fired resumes it with
\* that notification, and so the k-th await returns the k-th notification.
C1_FifoStep ==
    /\ (Running("c1") /\ signals_q["q1"] # <<>> /\ rcvd' # rcvd) =>
           /\ rcvd'["c1"] = Append(rcvd["c1"], Value(Head(signals_q["q1"])))
           /\ signals_q'["q1"] = Tail(signals_q["q1"])
           /\ co'["c1"] = "run"
           /\ stack' = stack
    /\ (Running("c1") /\ signals_q["q1"] = <<>> /\ fired' = fired /\ co'["c1"] # "done") =>
           /\ co'["c1"] = "susp"
           /\ rcvd' = rcvd
           /\ waiters'["q1"] = <<"c1">>
    /\ (co["c1"] = "susp" /\ fired' # fired) =>
           /\ fired'["q1"] = fired["q1"] + 1
           /\ co'["c1"] = "run"
           /\ rcvd'["c1"] = Append(rcvd["c1"], Value(ReceivedSignal("q1", fired'["q1"])))
           /\ signals_q' = signals_q
    /\ rcvd'["c1"] \o AsValues(signals_q'["q1"]) = FiredSeq("q1", fired'["q1"])

C1_Fifo == [][C1_FifoStep]_vars

C1_Witness ==
    /\ co["c1"] = "susp"
    /\ Len(rcvd["c1"]) = 4
    /\ fired["q1"] = 4

----------------------------------------------------------------------------
\* how often x occurs in sequence s
Count(s, x) == Cardinality({i \in 1..Len(s) : s[i] = x})

\* how often notification k of queue q was returned by an await or handed to
\* a waiter, and how often it lies in the buffer
TimesReceived(q, k) ==
    LET v == Value(ReceivedSignal(q, k))
    IN  Count(rcvd["c1"], v) + Count(rcvd["c2"], v) + Count(rcvd["c3"], v)

TimesBuffered(q, k) == Count(signals_q[q], ReceivedSignal(q, k))

\* C2: every notification fired is consumed exactly once: it is handed to one
\* waiter or lies in the buffer until one await returns it, never both, never
\* twice, and none is dropped.
C2_ExactlyOnce ==
    \A q \in Queues : \A k \in 1..fired[q] :
        TimesReceived(q, k) + TimesBuffered(q, k) = 1

----------------------------------------------------------------------------
Quiescent == stack = <<>> /\ pending = <<>>

\* c is suspended at a wait that names t
Awaits(c, t) ==
    co[c] = "susp" /\ t \in Range(yielded[c].items)

\* this step resumes c
Resumes(c) == co[c] = "susp" /\ co'[c] = "run"

\* this step is the evaluation of one_of.__await__ in c
IsOneOfAwait(c) ==
    Running(c) /\ ctor[c].active /\ ctor[c].todo = <<>> /\ ~ctor'[c].active

OnlyQueues(items) == \A i \in 1..Len(items) : items[i] \in Queues

\* Two coroutines and two SignalQueues: c1 races q1 against q2 with one_of,
\* then goes on awaiting, racing or not; c2 awaits the queues one at a time;
\* the host and the running coroutine emit the signals.
Racers == {"c1", "c2"}

RaceFire(q) ==
    /\ TotalFired < RaceMaxFired
    /\ Emit(q)

RaceCall ==
    /\ Len(rcvd["c1"]) < RaceMaxAwaits
    /\ CoOneOf("c1", <<QArg("q1"), QArg("q2")>>)
    /\ UNCHANGED <<host, io>>

RaceAwait(c, q) ==
    /\ c = "c1" => rcvd["c1"] # <<>>
    /\ Len(rcvd[c]) < RaceMaxAwaits
    /\ CoAwaitQueue(c, q)
    /\ UNCHANGED <<host, io>>

NextRace ==
    \/ \E c \in Racers : start_async(c)
    \/ \E q \in Queues : RaceFire(q)
    \/ RaceCall
    \/ OneOfInit("c1")
    \/ OneOfAwait("c1")
    \/ \E c \in Racers, q \in Queues : RaceAwait(c, q)
    \/ \E c \in Racers : CoReturn(c)

SpecRace == Init /\ [][NextRace]_vars

\* C3: a race of SignalQueues consumes from the first ready queue only: the
\* step that resumes the racer changes no buffer and leaves the racer in no
\* waiter list, a race that resolves at once pops one notification from one
\* queue and touches nothing else, and a notification fired while the racer
\* is not waiting is not handed to it: with no waiter on its queue it is
\* buffered behind the ones already there, where a later await finds it.
C3_RaceStep ==
    \A c \in Coros :
        /\ (Resumes(c) /\ OnlyQueues(yielded[c].items)) =>
               /\ signals_q' = signals_q
               /\ \A x \in Queues \cup Coros : c \notin Range(waiters'[x])
               /\ c \notin DOMAIN waiting'
        /\ (IsOneOfAwait(c) /\ OnlyQueues(ctor[c].catchers) /\ co'[c] = "run") =>
               /\ \E q \in Range(ctor[c].catchers) :
                      /\ signals_q[q] # <<>>
                      /\ signals_q' = [signals_q EXCEPT ![q] = Tail(@)]
                      /\ rcvd'[c] = Append(rcvd[c], Value(Head(signals_q[q])))
               /\ waiters' = waiters
        /\ \A q \in Queues :
               (fired'[q] # fired[q] /\ co[c] # "susp") =>
                   /\ rcvd'[c] = rcvd[c]
                   /\ waiters[q] = <<>> =>
                          signals_q'[q] = Append(signals_q[q], ReceivedSignal(q, fired'[q]))
        /\ \A q \in Queues : \A k \in 1..fired'[q] :
               TimesReceived(q, k)' + TimesBuffered(q, k)' = 1

C3_Race == [][C3_RaceStep]_vars

\* c1's race was resumed by q2 while q1, listed first, had nothing; q1 fired
\* as well, and c1's next await returned that notification
C3_Witness ==
    /\ rcvd["c1"] = <<Value(ReceivedSignal("q2", 1)), Value(ReceivedSignal("q1", 1))>>
    /\ signals_q["q1"] = <<>>

\* an input of one_of is ready: a SignalQueue with a buffered notification, or
\* a computation that has completed with a result
ReadyInput(x) ==
    IF x \in Queues THEN signals_q[x] # <<>> ELSE co[x] = "done"

InputValue(x) ==
    IF x \in Queues THEN Value(Head(signals_q[x])) ELSE outcome(x)

\* C4: awaiting one_of resolves at once, without suspending, when an input is
\* ready, with the value of the earliest-listed ready input.
C4_ImmediateStep ==
    \A c \in Coros :
        IsOneOfAwait(c) =>
            LET catchers == ctor[c].catchers
                r == {i \in 1..Len(catchers) : ReadyInput(catchers[i])}
            IN  r # {} =>
                    /\ co'[c] = "run"
                    /\ \E i \in r :
                           /\ \A j \in r : i <= j
                           /\ rcvd'[c] = Append(rcvd[c], InputValue(catchers[i]))

C4_Immediate == [][C4_ImmediateStep]_vars

\* C5: a computation that awaits the handle of a started computation gets
\* that computation's result: once the awaited computation has completed and
\* nothing is left to run, the awaiter is not suspended on the handle any more.
C5_HandleAwaitable ==
    \A c, t \in Coros :
        (Quiescent /\ co[t] = "done") => ~(Awaits(c, t) /\ ~yielded[c].iterable)

\* C6: when an awaited computation fails, every computation awaiting it (on
\* the handle itself or through one_of) has a resumption with that exception
\* coming: it is not left suspended for ever.
C6_FailureStep ==
    \A c, t \in Coros :
        (Awaits(c, t) /\ co[t] = "run" /\ co'[t] = "failed") =>
            \E i \in 1..Len(pending') :
                pending'[i] = [waiter |-> c, result |-> Error(Exc(t))]

C6_FailurePropagates == [][C6_FailureStep]_vars

\* what an operator can see: the tracebacks of the exceptions that reached
\* the host; core.py writes nothing else
OperatorVisible == escaped

\* C7: the failure of a computation nothing awaits is reported to the
\* operator, does not escape into the code that fired the notification, and
\* leaves buffers and the other computations' registrations alone.
C7_TopLevelStep ==
    \A c \in Coros :
        (co[c] = "run" /\ co'[c] = "failed" /\ waiters[c] = <<>>) =>
            /\ \E e \in OperatorVisible' \ OperatorVisible : e.at = c
            /\ signals_q' = signals_q
            /\ waiters' = waiters
            /\ waiting' = waiting

C7_TopLevelReported == [][C7_TopLevelStep]_vars

----------------------------------------------------------------------------
\* Coroutines that sleep, iterate sleep_loop and await SignalQueues, while the
\* host and the running coroutine emit the queues' signals.

NextSleep ==
    \/ \E c \in Coros : start_async(c)
    \/ \E q \in Queues : Fire(q)
    \/ \E c \in Coros, q \in Queues : AwaitQueue(c, q)
    \/ \E c \in Coros, q \in Queues, ms \in Durations : sleep(c, q, ms)
    \/ \E c \in Coros, q \in Queues, ms \in Durations : sleep_loop(c, q, ms)
    \/ \E c \in Coros : CoReturn(c)
    \/ \E c \in Coros : CoRaise(c)

SpecSleep == Init /\ [][NextSleep]_vars

\* this step is c's call of sleep or sleep_loop on timer q
CallsTimerWait(c, q) ==
    Running(c) /\ timer[q] = NoTimer /\ timer'[q] # NoTimer

\* q is the SignalQueue of a started timer made by sleep or sleep_loop: a
\* queue of capacity max_buffer_size
BoundedQueue(q) == timer[q].state = "active"

\* C9: the queue sleep builds with capacity k = max_buffer_size is a bounded
\* Event Queue: the call builds it, starts the timer and waits on it; the
\* buffer never holds more than k notifications, and a notification that
\* arrives at a full buffer evicts the oldest, so that the buffer keeps the
\* newest k in order.
C9_BoundedStep ==
    \A q \in Queues :
        /\ \A c \in Coros :
               (CallsTimerWait(c, q) /\ timer'[q].single) =>
                   /\ BoundedQueue(q)'
                   /\ co'[c] = "susp"
                   /\ yielded'[c].items = <<q>>
        /\ BoundedQueue(q)' =>
               /\ Len(signals_q'[q]) <= max_buffer_size
               /\ (fired'[q] # fired[q] /\ waiters[q] = <<>>) =>
                      signals_q'[q] =
                          LET all == Append(signals_q[q], ReceivedSignal(q, fired'[q]))
                          IN  IF Len(all) <= max_buffer_size THEN all ELSE Tail(all)

C9_BoundedEvicts == [][C9_BoundedStep]_vars

\* C10: sleep_loop does not catch up with a backlog: the loop starts its
\* periodic timer and waits for a tick, and whenever an iteration starts
\* straight away from a buffered tick, no tick is left in the buffer, so the
\* iteration after it waits for a fresh one.
C10_NoCatchUpStep ==
    \A q \in Queues : \A c \in Coros :
        /\ (CallsTimerWait(c, q) /\ ~timer'[q].single) =>
               /\ timer'[q].state = "active"
               /\ co'[c] = "susp"
               /\ yielded'[c].items = <<q>>
        /\ (timer[q].state = "active" /\ ~timer[q].single /\ Running(c)
                /\ Len(rcvd'[c]) > Len(rcvd[c]) /\ signals_q'[q] # signals_q[q]) =>
               signals_q'[q] = <<>>

C10_NoCatchUp == [][C10_NoCatchUpStep]_vars

----------------------------------------------------------------------------
\* The Timeout Wrapper, with_timeout(op, t), as test_with_timeout uses it:
\* c1 awaits with_timeout(c2, dur.timeout), where c2 is a computation that
\* waits dur.op on a single-shot timer of its own and returns. q1 is the
\* SignalQueue of c2's timer, q2 the one of the wrapper's timer.

\* the host's event loop fires a timer that is due
TimerFire(q) ==
    /\ stack = <<>>
    /\ timer[q].state = "active"
    /\ timer[q].expiry <= now
    /\ timer' = [timer EXCEPT ![q] = IF @.single THEN [@ EXCEPT !.state = "inactive"]
                                      ELSE [@ EXCEPT !.expiry = now + 1]]
    /\ on_signal(q)
    /\ UNCHANGED <<now, dur, wcall, io>>

\* time passes while the event loop has nothing due
Tick ==
    /\ stack = <<>>
    /\ pending = <<>>
    /\ \A q \in Queues : timer[q].state = "active" => timer[q].expiry > now
    /\ now < MaxTime
    /\ now' = now + 1
    /\ UNCHANGED <<signals_q, waiters, waiting, tasks, result, co, yielded, ctor,
                   stack, pending, fired, rcvd, escaped, timer, dur, wcall, io>>

\* with_timeout makes and starts its single-shot timer and races op against it
WithTimeoutCall ==
    /\ wcall.phase = "idle"
    /\ timer' = [timer EXCEPT !["q2"] = Started(QTimer(TRUE), dur.timeout)]
    /\ wcall' = [wcall EXCEPT !.phase = "racing", !.t0 = now]
    /\ CoOneOf("c1", <<CArg("c2"), QArg("q2")>>)
    /\ UNCHANGED <<now, dur, io>>

\* op starts its timer and waits for it
OpWait ==
    /\ rcvd["c2"] = <<>>
    /\ timer["q1"] = NoTimer
    /\ timer' = [timer EXCEPT !["q1"] = Started(QTimer(TRUE), dur.op)]
    /\ CoAwaitQueue("c2", "q1")
    /\ UNCHANGED <<now, dur, wcall, io>>

\* op's timer has fired: op returns
OpReturn ==
    /\ rcvd["c2"] # <<>>
    /\ Last(rcvd["c2"]).tag = "Value"
    /\ CoReturn("c2")

\* op does not catch the Cancellation Signal: it leaves op's code
OpCancelled ==
    /\ rcvd["c2"] # <<>>
    /\ Last(rcvd["c2"]) = Error(Cancelled)
    /\ Finish("c2", Error(Cancelled))

\* the race is over and c1 runs again inside with_timeout
BackInWrapper ==
    /\ Running("c1")
    /\ ~ctor["c1"].active
    /\ rcvd["c1"] # <<>>

TimerWon == Last(rcvd["c1"]) = Value(ReceivedSignal("q2", 1))

\* op resolved first, or had completed by the time the wrapper ran again: the
\* timer is stopped and op's outcome is the wrapper's
WithTimeoutReturn ==
    /\ wcall.phase = "racing"
    /\ BackInWrapper
    /\ ~TimerWon \/ co["c2"] = "done"
    /\ timer' = [timer EXCEPT !["q2"].state = "inactive"]
    /\ wcall' = [wcall EXCEPT !.phase = "done", !.at = now,
                              !.res = IF TimerWon THEN Value(RetVal("c2"))
                                      ELSE Last(rcvd["c1"])]
    /\ UNCHANGED <<signals_q, waiters, waiting, tasks, result, co, yielded, ctor,
                   stack, pending, fired, rcvd, escaped, now, dur, io>>

\* the timer fired first: the Cancellation Signal is injected into op
WithTimeoutCancel ==
    /\ wcall.phase = "racing"
    /\ BackInWrapper
    /\ TimerWon
    /\ co["c2"] = "susp"
    /\ wcall' = [wcall EXCEPT !.phase = "cancelling"]
    /\ step_coro("c2", Error(Cancelled), waiters, waiting, "cancel")
    /\ UNCHANGED <<signals_q, tasks, result, ctor, pending, fired, now, timer, dur, io>>

\* the injection has taken effect: the wrapper fails with the Timeout error
WithTimeoutRaise ==
    /\ wcall.phase = "cancelling"
    /\ Running("c1")
    /\ co["c2"] = "failed"
    /\ wcall' = [wcall EXCEPT !.phase = "done", !.at = now, !.res = Error(TimeoutError)]
    /\ UNCHANGED <<signals_q, waiters, waiting, tasks, result, co, yielded, ctor,
                   stack, pending, fired, rcvd, escaped, now, timer, dur, io>>

\* the caller goes on after with_timeout and ends
CallerReturn ==
    /\ wcall.phase = "done"
    /\ CoReturn("c1")

InitTimeout == \E a, b \in Durations : InitWith([op |-> a, timeout |-> b])

NextTimeout ==
    \/ start_async("c1")
    \/ WithTimeoutCall
    \/ OneOfInit("c1")
    \/ OpWait
    \/ OneOfAwait("c1")
    \/ Tick
    \/ \E q \in Queues : TimerFire(q)
    \/ RunPending
    \/ OpReturn
    \/ OpCancelled
    \/ WithTimeoutReturn
    \/ WithTimeoutCancel
    \/ WithTimeoutRaise
    \/ CallerReturn

SpecTimeout == InitTimeout /\ [][NextTimeout]_vars

----------------------------------------------------------------------------
\* this step completes computation t (its code returned or raised)
Completes(t) == co[t] = "run" /\ co'[t] \in {"done", "failed"}

\* c is the running computation after this step
RunsNext(c) == stack' # <<>> /\ Last(stack').coro = c /\ co'[c] = "run"

\* C14: resumption is synchronous: a notification that finds a waiting
\* computation, and the completion of a computation that has a waiting
\* awaiter, resume the waiter chosen first inside the triggering call, so
\* that it is the running computation right after the step, before the
\* trigger returns.
C14_SynchronousStep ==
    /\ \A q \in Queues :
           (fired'[q] # fired[q] /\ waiters[q] # <<>>
                /\ Head(waiters[q]) \in DOMAIN waiting) =>
               RunsNext(Head(waiters[q]))
    /\ \A t \in Coros :
           (Completes(t) /\ waiters[t] # <<>>
                /\ Head(waiters[t]) \in DOMAIN waiting) =>
               RunsNext(Head(waiters[t]))

Scheduled == SubSeq(pending', Len(pending) + 1, Len(pending'))

\* C14 as amended: a notification that finds a waiter steps the oldest waiter
\* inside on_signal: the waiter is the running computation right after the
\* step when the scheduler holds a wait set for it, and otherwise the
\* KeyError of step_coro leaves on_signal and the waiter stays as it was.  The
\* completion of a computation resumes nobody inside the completing step: it
\* schedules one zero-delay callback per registered awaiter, carrying the
\* outcome, and the awaiters stay suspended until the event loop runs them.
C14_AmendedStep ==
    /\ \A q \in Queues :
           (fired'[q] # fired[q] /\ waiters[q] # <<>>) =>
               IF Head(waiters[q]) \in DOMAIN waiting
               THEN RunsNext(Head(waiters[q]))
               ELSE /\ [exc |-> "KeyError", at |-> Head(waiters[q])] \in escaped'
                    /\ co' = co
                    /\ stack' = stack
    /\ \A t \in Coros :
           Completes(t) =>
               /\ Len(pending') = Len(pending) + Len(waiters[t])
               /\ \A i \in 1..Len(Scheduled) :
                      /\ Scheduled[i].waiter \in Range(waiters[t])
                      /\ Scheduled[i].result = outcome(t)'
               /\ \A c \in Range(waiters[t]) : co'[c] = co[c]
               /\ stack' = Front(stack)

----------------------------------------------------------------------------
\* the waitable a Result comes from: the SignalQueue of a notification, the
\* computation of an outcome
SourceOf(r) == r.val.src

\* C15: a race cannot double-fire: a suspended computation is resumed only by
\* a member of the wait set it is suspended on, with that member's value, so
\* at most once per suspension, and no step is attempted on a computation
\* that has finished.
C15_NoDoubleFireStep ==
    /\ \A c \in Coros :
           Resumes(c) =>
               /\ rcvd'[c] # rcvd[c]
               /\ SourceOf(Last(rcvd'[c])) \in Range(yielded[c].items)
    /\ \A e \in escaped' \ escaped :
           e.exc = "KeyError" => co[e.at] \notin {"done", "failed"}

C15_NoDoubleFire == [][C15_NoDoubleFireStep]_vars

----------------------------------------------------------------------------
\* how many of the callbacks scheduled by this step are for waiter c
ScheduledFor(c) ==
    Cardinality({i \in 1..Len(Scheduled) : Scheduled[i].waiter = c})

\* C16: when a computation completes normally with value v, the value is
\* recorded on its handle (done() is true and the result is v from then on),
\* and every computation registered as awaiting it gets exactly one
\* resumption with v.
C16_CompletionStep ==
    /\ \A t \in Coros :
           (Completes(t) /\ co'[t] = "done") =>
               \A c \in Range(waiters[t]) :
                   /\ ScheduledFor(c) = 1
                   /\ \A i \in 1..Len(Scheduled) :
                          Scheduled[i].result = Value(RetVal(t))
    /\ \A t \in Coros :
           co'[t] = "done" => (done(t)' /\ result'[t] = Value(RetVal(t)))

C16_CompletionRecorded == [][C16_CompletionStep]_vars

----------------------------------------------------------------------------
\* the Wait Set the scheduler has recorded for c
WaitSet(c) == IF c \in DOMAIN waiting THEN Range(waiting[c]) ELSE {}

\* C17: whenever no step is in progress, a computation is in the waiter set
\* of a waitable exactly when that waitable is in the Wait Set recorded for
\* it, and a finished computation is registered nowhere and has no recorded
\* Wait Set; whenever a computation is running, its previous Wait Set has
\* been torn down: it is in no waiter set and has no recorded Wait Set.
C17_WaitSetConsistent ==
    /\ stack = <<>> =>
           \A c \in Coros : \A w \in Queues \cup Coros :
               c \in Range(waiters[w]) <=> w \in WaitSet(c)
    /\ \A c \in Coros :
           co[c] \in {"run", "done", "failed"} =>
               /\ c \notin DOMAIN waiting
               /\ \A w \in Queues \cup Coros : c \notin Range(waiters[w])

----------------------------------------------------------------------------
\* this step raises the TypeError of an unsupported waitable in computation c:
\* step_coro's, on the wait set c yielded, or one_of.__init__'s, in c's code
RejectsWaitSet(c) ==
    /\ Running(c)
    /\ yielded'[c].iterable
    /\ FirstBad(yielded'[c].items) # 0

RejectsOneOfInput(c) ==
    /\ Running(c)
    /\ ctor[c].active
    /\ ctor[c].todo # <<>>
    /\ Head(ctor[c].todo).type = "other"

\* C18: an unsupported waitable fails fast: the TypeError leaves no
\* computation suspended or registered: the computation that named the wait
\* set is a waiter of no member of it, and no coroutine listed before the
\* unsupported input of one_of has been started.
C18_FailFastStep ==
    \A c \in Coros :
        /\ RejectsWaitSet(c) =>
               /\ co'[c] # "susp"
               /\ \A w \in Queues \cup Coros : c \notin Range(waiters'[w])
        /\ RejectsOneOfInput(c) =>
               /\ rcvd'[c] = Append(rcvd[c], Error(TypeErr))
               /\ \A t \in Range(ctor[c].catchers) \cap Coros : co[t] = "new"

C18_FailFast == [][C18_FailFastStep]_vars

----------------------------------------------------------------------------
\* the computations being stepped, outermost first
Stepping == [i \in 1..Len(stack) |-> stack[i].coro]

\* C19: step_coro never re-enters itself for one computation: a computation
\* being stepped, also while steps of other computations are nested inside
\* its step, is in no waiter set, and it is on the stack of step_coro
\* activations once.
C19_NoReentry ==
    \A i \in 1..Len(stack) :
        /\ \A w \in Queues \cup Coros : Stepping[i] \notin Range(waiters[w])
        /\ \A j \in 1..Len(stack) : Stepping[j] = Stepping[i] => j = i

\* c1 fired a signal during its own step and c2's step is nested inside it
C19_Witness ==
    /\ Len(stack) = 2
    /\ stack[1].coro = "c1"
    /\ stack[2] = [coro |-> "c2", via |-> "signal"]
    /\ rcvd["c1"] # <<>>

----------------------------------------------------------------------------
\* utils.run_process(qproc, program, arguments), awaited by c1.  q1 is the
\* SignalQueue it makes over qproc.finished and qproc.errorOccurred; the
\* QProcess is a host object that emits them; c2 is another computation,
\* awaiting q2.

RuntimeError == [kind |-> "RuntimeError", src |-> "", n |-> 0]

ExitCodes == {0, 1}

Finished(code, status) == [signal |-> "finished", args |-> <<code, status>>]

ErrorOccurred(e) == [signal |-> "errorOccurred", args |-> <<e>>]

\* the signal and arguments of a ReceivedSignal
SignalOf(sig) == emitted[sig.src][sig.n]

\* the QProcess emits a signal that q1 is connected to
ProcEmit(s, state) ==
    /\ stack = <<>>
    /\ emitted' = [emitted EXCEPT !["q1"] = Append(@, s)]
    /\ dev' = [dev EXCEPT !.state = state]
    /\ on_signal("q1")
    /\ UNCHANGED <<host, ucall>>

\* what the QProcess does once started: it fails to start, or it runs, may
\* report a read error, and exits or crashes (errorOccurred, then finished)
ProcEvent ==
    \/ dev.state = "starting" /\ ProcEmit(ErrorOccurred("FailedToStart"), "notrunning")
    \/ dev.state = "starting" /\ ProcEmit(ErrorOccurred("ReadError"), "running")
    \/ /\ dev.state \in {"starting", "running"}
       /\ \E code \in ExitCodes : ProcEmit(Finished(code, "NormalExit"), "exited")
    \/ dev.state \in {"starting", "running"} /\ ProcEmit(ErrorOccurred("Crashed"), "crashing")
    \/ dev.state = "crashing" /\ ProcEmit(Finished(1, "CrashExit"), "exited")

\* run_process up to its await: make the SignalQueue, start the process, await
run_process(c) ==
    /\ ucall.phase = "idle"
    /\ dev.state = "none"
    /\ dev' = [dev EXCEPT !.state = "starting"]
    /\ ucall' = [ucall EXCEPT !.fn = "run_process", !.phase = "wait"]
    /\ CoAwaitQueue(c, "q1")
    /\ UNCHANGED <<host, emitted>>

\* if sig.signal == qproc.errorOccurred
ProcFailedNever(sig) == FALSE

ProcFailed(sig) == SignalOf(sig).signal = "errorOccurred"

\* run_process after its await: the notification, or RuntimeError, or the
\* Cancelled thrown into the await, after qproc.terminate()
RunProcessResume(c) ==
    /\ ucall.fn = "run_process"
    /\ ucall.phase = "wait"
    /\ Running(c)
    /\ rcvd[c] # <<>>
    /\ LET r == Last(rcvd[c]) IN
       /\ ucall' = [ucall EXCEPT !.phase = "done",
                       !.res = IF r.tag = "Error" THEN r
                               ELSE IF ProcFailed(r.val) THEN Error(RuntimeError)
                               ELSE r]
       /\ dev' = IF r = Error(Cancelled) THEN [dev EXCEPT !.state = "terminating"]
                 ELSE dev
    /\ UNCHANGED <<signals_q, waiters, waiting, tasks, result, co, yielded, ctor,
                   stack, pending, fired, rcvd, escaped, host, emitted>>

\* the caller ends: with the RuntimeError if run_process raised it
CallerEnd(c) ==
    /\ ucall.phase = "done"
    /\ IF ucall.res.tag = "Error" THEN Finish(c, ucall.res) ELSE CoReturn(c)

\* c is not inside a utils call
Outside(c) == c # "c1" \/ ucall.phase \in {"idle", "done"}

NextProc ==
    \/ \E c \in {"c1", "c2"} : start_async(c)
    \/ run_process("c1")
    \/ ProcEvent
    \/ RunProcessResume("c1")
    \/ CallerEnd("c1")
    \/ \E c \in {"c1", "c2"} : Outside(c) /\ AwaitQueue(c, "q2")
    \/ Fire("q2")
    \/ CoReturn("c2")

SpecProc == Init /\ [][NextProc]_vars

\* C13: run_process starts the process and resolves only after the process
\* has signalled an outcome: with the first notification when that is
\* `finished` (the exit code is its first argument), with a failure when the
\* first notification is `errorOccurred`; never before one of them has fired.
C13_RunProcess ==
    /\ ucall.phase # "idle" => dev.state # "none"
    /\ ucall.phase = "done" =>
           /\ emitted["q1"] # <<>>
           /\ LET first == emitted["q1"][1] IN
              /\ first.signal = "finished" =>
                     /\ ucall.res = Value(ReceivedSignal("q1", 1))
                     /\ SignalOf(ucall.res.val).args[1] \in ExitCodes
              /\ first.signal = "errorOccurred" => ucall.res = Error(RuntimeError)

\* the process crashed: errorOccurred came first and run_process raised, and
\* the `finished` that followed lies in the queue
C13_Witness ==
    /\ ucall.phase = "done"
    /\ ucall.res = Error(RuntimeError)
    /\ emitted["q1"] = <<ErrorOccurred("Crashed"), Finished(1, "CrashExit")>>
    /\ signals_q["q1"] = <<ReceivedSignal("q1", 2)>>

----------------------------------------------------------------------------
\* utils.read_streaming_bytes(dev, maxSize) and read_streaming_text, iterated
\* by c1 with `async for`.  q1 is the SignalQueue the reader makes over
\* dev.readyRead and dev.readChannelFinished; the QIODevice is a host object:
\* its data arrives in pieces, it announces new data with readyRead and the
\* end of the channel with readChannelFinished.  The loop body of c1 may
\* await q2.

\* the bytes of the encoded stream: an ASCII byte, the lead byte of a
\* two-byte character, a continuation byte
Bytes == {"a", "L", "C"}

RECURSIVE SeqsUpTo(_, _)
SeqsUpTo(S, n) ==
    IF n = 0 THEN {<<>>}
    ELSE LET shorter == SeqsUpTo(S, n - 1)
         IN  shorter \cup {Append(s, x) : s \in shorter, x \in S}

\* what the source may produce in all
Streams == SeqsUpTo(Bytes, MaxBytes)

ReadyRead == [signal |-> "readyRead", args |-> <<>>]

ReadChannelFinished == [signal |-> "readChannelFinished", args |-> <<>>]

core == <<signals_q, waiters, waiting, tasks, result, co, yielded, ctor,
          stack, pending, fired, rcvd, escaped>>

\* the reader has made its SignalQueue: the device's signals reach q1
Connected == ucall.phase # "idle"

\* the device emits s: q1 gets it if it is connected by then
DevEmit(s) ==
    IF Connected
    THEN /\ emitted' = [emitted EXCEPT !["q1"] = Append(@, s)]
         /\ on_signal("q1")
    ELSE UNCHANGED <<emitted, core>>

\* n more bytes of the source reach the device's buffer
DevArrive(n) ==
    /\ stack = <<>>
    /\ dev.state = "open"
    /\ n \in 1..Len(dev.src)
    /\ dev' = [dev EXCEPT !.buf = @ \o SubSeq(dev.src, 1, n),
                          !.src = SubSeq(dev.src, n + 1, Len(dev.src)),
                          !.news = TRUE]
    /\ UNCHANGED <<core, host, emitted, ucall>>

\* the device announces the data that has arrived
DevReadyRead ==
    /\ stack = <<>>
    /\ dev.state = "open"
    /\ dev.news
    /\ dev' = [dev EXCEPT !.news = FALSE]
    /\ DevEmit(ReadyRead)
    /\ UNCHANGED <<host, ucall>>

\* the source has produced everything: the channel is closed
DevFinish ==
    /\ stack = <<>>
    /\ dev.state = "open"
    /\ dev.src = <<>>
    /\ dev' = [dev EXCEPT !.state = "finished"]
    /\ DevEmit(ReadChannelFinished)
    /\ UNCHANGED <<host, ucall>>

\* dev.read(maxSize): the bytes returned, the buffer left
Read(buf, n) ==
    LET k == IF Len(buf) < n THEN Len(buf) ELSE n
    IN  [b |-> SubSeq(buf, 1, k), rest |-> SubSeq(buf, k + 1, Len(buf))]

\* the incremental UTF-8 decoder on the buffered and the new bytes: the text
\* decoded, the incomplete sequence held back, or a UnicodeDecodeError
RECURSIVE Utf8Decode(_, _)
Utf8Decode(bytes, final) ==
    IF bytes = <<>> THEN [text |-> <<>>, pend |-> <<>>, err |-> FALSE]
    ELSE IF Head(bytes) = "a"
    THEN LET d == Utf8Decode(Tail(bytes), final)
         IN  [d EXCEPT !.text = IF d.err THEN <<>> ELSE <<"a">> \o @]
    ELSE IF Head(bytes) = "L"
    THEN IF Len(bytes) = 1
         THEN [text |-> <<>>, pend |-> IF final THEN <<>> ELSE bytes, err |-> final]
         ELSE IF bytes[2] = "C"
         THEN LET d == Utf8Decode(Tail(Tail(bytes)), final)
              IN  [d EXCEPT !.text = IF d.err THEN <<>> ELSE <<"e'">> \o @]
         ELSE [text |-> <<>>, pend |-> <<>>, err |-> TRUE]
    ELSE [text |-> <<>>, pend |-> <<>>, err |-> TRUE]

\* a decoder that forgets the bytes it held back
DecodeForgetful(pend, b, final) == Utf8Decode(b, final)

\* inc_decoder.decode(b, final)
Decode(pend, b, final) == Utf8Decode(pend \o b, final)

UnicodeDecodeError == [kind |-> "UnicodeDecodeError", src |-> "", n |-> 0]

\* the first iteration step: the generator makes its SignalQueue
StreamStart(c, fn) ==
    /\ Running(c)
    /\ ucall.phase = "idle"
    /\ ucall' = [ucall EXCEPT !.fn = fn, !.phase = "drain"]
    /\ UNCHANGED <<core, host, emitted, dev>>

read_streaming_bytes(c) == StreamStart(c, "read_streaming_bytes")

read_streaming_text(c) == StreamStart(c, "read_streaming_text")

\* while b := dev.read(maxSize): yield b -- and, in read_streaming_text,
\* yield inc_decoder.decode(b)
ReadChunk(c) ==
    /\ Running(c)
    /\ ucall.phase = "drain"
    /\ dev.buf # <<>>
    /\ LET r == Read(dev.buf, maxSize)
           d == Decode(ucall.pend, r.b, FALSE)
       IN  /\ dev' = [dev EXCEPT !.buf = r.rest]
           /\ ucall' =
                IF ucall.fn = "read_streaming_bytes"
                THEN [ucall EXCEPT !.out = Append(@, r.b), !.phase = "body"]
                ELSE IF d.err
                THEN [ucall EXCEPT !.out = Append(@, r.b), !.phase = "failed",
                                   !.res = Error(UnicodeDecodeError)]
                ELSE [ucall EXCEPT !.out = Append(@, r.b), !.phase = "body",
                                   !.text = Append(@, d.text), !.pend = d.pend]
    /\ UNCHANGED <<core, host, emitted>>

\* the loop body awaits something else
BodyAwait(c) ==
    /\ ucall.phase = "body"
    /\ CoAwaitQueue(c, "q2")
    /\ UNCHANGED <<host, io>>

\* the loop body is over: the next iteration step goes on in the generator
BodyEnd(c) ==
    /\ Running(c)
    /\ ucall.phase = "body"
    /\ ucall' = [ucall EXCEPT !.phase = "drain"]
    /\ UNCHANGED <<core, host, emitted, dev>>

\* the reader stops at once when the channel has finished
PhaseStopAtOnce(fin) == IF fin THEN "ended" ELSE "drain"

\* where the reader goes on after `await sig_q`: at the top of `while True`
PhaseAfterSignal(fin) == "drain"

\* dev.read returned nothing: return if finished (read_streaming_text then
\* flushes its decoder), else await sig_q
DrainDone(c) ==
    /\ Running(c)
    /\ ucall.phase = "drain"
    /\ dev.buf = <<>>
    /\ IF ucall.finished
       THEN /\ LET d == Decode(ucall.pend, <<>>, TRUE) IN
               ucall' =
                 IF ucall.fn = "read_streaming_text" /\ d.err
                 THEN [ucall EXCEPT !.phase = "failed", !.res = Error(UnicodeDecodeError)]
                 ELSE [ucall EXCEPT !.phase = "ended"]
            /\ UNCHANGED core
       ELSE /\ ucall' = [ucall EXCEPT !.phase = "wait"]
            /\ CoAwaitQueue(c, "q1")
    /\ UNCHANGED <<host, emitted, dev>>

\* sig = await sig_q has returned: note readChannelFinished, loop
AfterSignal(c) ==
    /\ Running(c)
    /\ ucall.phase = "wait"
    /\ LET fin == SignalOf(Last(rcvd[c]).val) = ReadChannelFinished IN
       ucall' = [ucall EXCEPT !.finished = @ \/ fin, !.phase = PhaseAfterSignal(fin)]
    /\ UNCHANGED <<core, host, emitted, dev>>

\* the `async for` is over: c ends, with the decoding failure if there was one
StreamEnd(c) ==
    /\ ucall.phase \in {"ended", "failed"}
    /\ IF ucall.phase = "failed" THEN Finish(c, ucall.res) ELSE CoReturn(c)

StreamFire ==
    /\ fired["q2"] < StreamMaxFired
    /\ Emit("q2")

InitStream ==
    \E s \in Streams :
        InitAll([op |-> 0, timeout |-> 0],
                [state |-> "open", src |-> s, buf |-> <<>>, news |-> FALSE, all |-> s])

NextStream ==
    \/ start_async("c1")
    \/ \E n \in 1..MaxBytes : DevArrive(n)
    \/ DevReadyRead
    \/ DevFinish
    \/ read_streaming_bytes("c1")
    \/ read_streaming_text("c1")
    \/ ReadChunk("c1")
    \/ BodyAwait("c1")
    \/ BodyEnd("c1")
    \/ DrainDone("c1")
    \/ AfterSignal("c1")
    \/ StreamEnd("c1")
    \/ StreamFire

SpecStream == InitStream /\ [][NextStream]_vars

RECURSIVE Concat(_)
Concat(chunks) ==
    IF chunks = <<>> THEN <<>> ELSE Head(chunks) \o Concat(Tail(chunks))

\* C11: read_streaming_bytes yields the source's bytes, each once and in
\* order: every chunk is non-empty and at most maxSize long; the chunks
\* yielded so far, the device's buffer and what has not arrived yet make up
\* the source's whole output; and when the iteration has ended, completion
\* having been signalled with data still buffered or not, the chunks are the
\* whole output.
C11_StreamBytes ==
    ucall.fn = "read_streaming_bytes" =>
        /\ \A i \in 1..Len(ucall.out) :
               Len(ucall.out[i]) \in 1..maxSize
        /\ Concat(ucall.out) \o dev.buf \o dev.src = dev.all
        /\ ucall.phase = "ended" => Concat(ucall.out) = dev.all

\* three bytes arrived in one piece and completion was signalled while they
\* were all still buffered; the iteration ended after yielding two chunks
C11_Witness ==
    /\ ucall.fn = "read_streaming_bytes"
    /\ ucall.phase = "ended"
    /\ Len(dev.all) = 3
    /\ Len(ucall.out) = 2
    /\ emitted["q1"] = <<ReadChannelFinished>>

\* the decoding of a whole byte stream at once
DecodeAll(bytes) == Utf8Decode(bytes, TRUE)

Valid(bytes) == ~DecodeAll(bytes).err

\* a valid stream cut off after the lead byte of a character
Truncated(bytes) ==
    bytes # <<>> /\ Last(bytes) = "L" /\ Valid(Front(bytes))

\* C12: read_streaming_text does not depend on where the chunks end: while
\* it has not failed, the strings yielded are the decoding of the bytes read
\* less the incomplete sequence held back; for a valid stream it never fails
\* and at the end the strings make up the decoding of the whole stream; a
\* stream cut off inside a character fails, at the final flush, after all
\* complete characters have been yielded.
C12_StreamText ==
    ucall.fn = "read_streaming_text" =>
        LET read == Concat(ucall.out)
            text == Concat(ucall.text)
        IN  /\ ucall.phase # "failed" =>
                   /\ ucall.pend \in {<<>>, <<"L">>}
                   /\ read = SubSeq(read, 1, Len(read) - Len(ucall.pend)) \o ucall.pend
                   /\ text = DecodeAll(SubSeq(read, 1, Len(read) - Len(ucall.pend))).text
            /\ Valid(dev.all) =>
                   /\ ucall.phase # "failed"
                   /\ ucall.phase = "ended" => text = DecodeAll(dev.all).text
            /\ Truncated(dev.all) =>
                   /\ ucall.phase # "ended"
                   /\ ucall.phase = "failed" =>
                          /\ ucall.finished
                          /\ read = dev.all
                          /\ text = DecodeAll(Front(dev.all)).text
            /\ ucall.phase = "ended" => Valid(dev.all)

\* the two bytes of a character came in different chunks and the character
\* was decoded
C12_Witness ==
    /\ ucall.fn = "read_streaming_text"
    /\ ucall.phase = "ended"
    /\ ucall.out = << <<"a", "L">>, <<"C">> >>
    /\ ucall.text = << <<"a">>, <<"e'">> >>

\* the reader is suspended on its SignalQueue with nothing left to wake it:
\* the channel has finished, so the device emits no more signals
Stuck(c) ==
    /\ ucall.phase = "wait"
    /\ co[c] = "susp"
    /\ stack = <<>>
    /\ dev.state = "finished"

\* C20: read_streaming_bytes terminates: whenever the source signals
\* readChannelFinished, before or after the iteration starts, the reader is
\* never left suspended on its signal queue after the channel has finished.
C20_Terminates ==
    ucall.fn = "read_streaming_bytes" => ~Stuck("c1")

====
